---- MODULE Spec2Model ----
(***************************************************************************)
(* Bulk ingestion of hospital records: the tracked background upload       *)
(* (bulk_realtime.py), pause / resume of a BulkOperation (resume.py), the  *)
(* batch activation endpoint (hospitals.py) and the synchronous bulk       *)
(* upload (hospitals_optimized.py), over the two tables of models.py.      *)
(*                                                                         *)
(* Granularity.  One action is one stretch of handler code that ends with  *)
(* a db.commit(): the statements of one database transaction are taken    *)
(* together.  Coroutines (`async def`: the background task, the resume     *)
(* handler, the uploads) share the single event loop and give it up only  *)
(* at an `await`; plain `def` handlers (pause, activate) run on worker    *)
(* threads and interleave with everything.                                 *)
(***************************************************************************)
EXTENDS Integers, Sequences, FiniteSets, TLC

\* ------------------------------------------------------------------ bounds
MaxRows == 2
MaxResumes == 1
MaxCreates == 1

\* ------------------------------------------------------- program constants
CheckpointInterval == 10

\* int(os.getenv("MAX_CSV_ROWS", "20")): the configured row limit of an
\* upload, here configured to the longest input that is ingested.
MAX_CSV_ROWS == MaxRows + 1

\* The batch ids (uuid4 texts) an upload may draw.
Batches == {"b1"}

None == "None_"
NoOp == [absent |-> TRUE]

RequiredMsg == "Name and address are required"

\* ------------------------------------------------------------- CSV content
\* The data lines an upload may carry (below the header line).
RawRows == { <<"A", "Addr1", "555">>, <<"B", "", "">>, <<"", "", "">> }

RECURSIVE SeqsUpTo(_, _)
SeqsUpTo(S, n) ==
    IF n = 0 THEN { <<>> }
    ELSE LET shorter == SeqsUpTo(S, n - 1)
         IN  shorter \cup { Append(s, x) : s \in { t \in shorter : Len(t) = n - 1 }, x \in S }

Contents == SeqsUpTo(RawRows, MaxRows)

\* pd.read_csv + df.to_dict("records"): one dict per data line.  An empty
\* cell, and a cell with one of the default NA texts, is the float NaN in
\* the frame.  A column whose cells are all numbers or NaN gets a numeric
\* dtype: its cell 0 is then the number zero, not the text "0"; when the
\* column also has a NaN its dtype is float64, and str of the number 555.0
\* is the text "555.0".
NaN == "<NaN>"
Zero == "<0>"

NaCells == {"", "NaN", "nan"}
NumericCells == {"0", "555"}

NumericColumn(content, c) ==
    /\ \A i \in 1..Len(content) : content[i][c] \in NumericCells \cup NaCells
    /\ \E i \in 1..Len(content) : content[i][c] \in NumericCells

FloatColumn(content, c) ==
    /\ NumericColumn(content, c)
    /\ \E i \in 1..Len(content) : content[i][c] \in NaCells

FloatText(cell) == IF cell = "555" THEN "555.0" ELSE cell

PdCell(cell, numeric, float) ==
    IF cell \in NaCells THEN NaN
    ELSE IF numeric /\ cell = "0" THEN Zero
    ELSE IF float THEN FloatText(cell)
    ELSE cell

ParseCSV(content) ==
    LET numeric == [c \in 1..3 |-> NumericColumn(content, c)]
        float == [c \in 1..3 |-> FloatColumn(content, c)]
    IN  [i \in 1..Len(content) |->
            [name |-> PdCell(content[i][1], numeric[1], float[1]),
             address |-> PdCell(content[i][2], numeric[2], float[2]),
             phone |-> PdCell(content[i][3], numeric[3], float[3])]]

\* A key the parsed row does not have: row.get(key) is None.
Missing == "<missing>"

\* str(row.get("name") or row.get("Name", "")): NaN is truthy, so it is kept
\* and str(NaN) is the text "nan"; for a key the row lacks, and for the
\* number zero (falsy), the default "" of the second get is taken.
PyStr(value) ==
    IF value = NaN THEN "nan"
    ELSE IF value \in {Missing, Zero} THEN ""
    ELSE value

\* The data lines of one upload of three lines: a full line, a line of
\* three empty cells, a line with a name only.
ThreeLines == << <<"A", "Addr1", "555">>, <<"", "", "">>, <<"B", "", "">> >>

\* The data lines of a file one line longer than the row limit.
Oversize == { [i \in 1..(MAX_CSV_ROWS + 1) |-> r] : r \in RawRows }

\* The uploaded files: no bytes, only white space, bytes that are not UTF-8,
\* or CSV text with a header line: all three columns over data lines up to
\* and beyond the row limit, or a header without the address column.
Files ==
    { [kind |-> k, columns |-> "all", content |-> <<>>] :
        k \in {"empty", "whitespace", "not_utf8"} }
    \cup { [kind |-> "csv", columns |-> "all", content |-> l] :
              l \in Contents \cup {ThreeLines} \cup Oversize }
    \cup { [kind |-> "csv", columns |-> "no_address", content |-> <<r>>] : r \in RawRows }

\* The files that pass the input checks of every upload.
PlainFiles == { [kind |-> "csv", columns |-> "all", content |-> l] : l \in Contents }

\* Files of one data line over a wider set of cells.
ValidatorRows ==
    { <<"A", "Addr1", "555">>, <<"B", "", "">>, <<"", "", "">>,
      <<"NaN", "none", "NONE">>, <<"A", "none", "555">>, <<"", "", "555">>,
      <<" ", " ", " ">>, <<"A", "Addr1", "">>, <<"none", "Addr1", "555">>,
      <<"A", "Addr1", "none">>, <<"0", "Addr1", "555">>, <<"A", "0", "">> }

ValidatorFiles ==
    { [kind |-> "csv", columns |-> "all", content |-> <<r>>] : r \in ValidatorRows }

\* str.lower and str.strip on the cell texts in use.
Lower(s) ==
    CASE s = "NaN" -> "nan"
      [] s = "None" -> "none"
      [] s = "NONE" -> "none"
      [] OTHER -> s

Strip(s) == IF s = " " THEN "" ELSE s

\* Text without a header line: the first line holds no letter, and a later
\* line has more cells than the first, so that pd.read_csv raises and the
\* csv.reader branch is taken.  A line is the tuple of its cells.
HeaderlessContents ==
    { << <<"12", "34">>, <<"7">>, <<"A", "Addr1", "555">> >>,
      << <<"12", "34">>, <<"A", "Addr1", "555">> >>,
      << <<"12", "34">>, <<"56", "", "555">>, <<"7">> >> }

HeaderlessFiles ==
    { [kind |-> "headerless", columns |-> "all", content |-> l] : l \in HeaderlessContents }

\* The lines of a headerless text with fewer than two cells.
ShortLines(content) == { i \in 1..Len(content) : Len(content[i]) < 2 }

\* {"name": row[0].strip(), "address": row[1].strip(), "phone": row[2].strip()
\* if len(row) > 2 else ""} for the lines with `len(row) >= 2`; the other
\* lines add nothing to hospitals_data.
ReadHeaderless(content) ==
    LET kept == SelectSeq([i \in 1..Len(content) |-> i], LAMBDA i : Len(content[i]) >= 2)
    IN  [k \in 1..Len(kept) |->
            [name |-> Strip(content[kept[k]][1]),
             address |-> Strip(content[kept[k]][2]),
             phone |-> IF Len(content[kept[k]]) > 2 THEN Strip(content[kept[k]][3]) ELSE ""]]

\* The checks on the bytes read: "" when the text can be parsed.
ReadError(file) ==
    CASE file.kind \in {"empty", "whitespace"} -> "File is empty"
      [] file.kind = "not_utf8" -> "File is not valid UTF-8 encoded text"
      [] OTHER -> ""

\* hospitals_data of an uploaded file: the parsed lines, without the keys
\* of the columns the header lacks.
ReadCSV(file) ==
    IF file.kind = "headerless" THEN ReadHeaderless(file.content)
    ELSE [i \in 1..Len(file.content) |->
            IF file.columns = "no_address"
            THEN [ParseCSV(file.content)[i] EXCEPT !.address = Missing]
            ELSE ParseCSV(file.content)[i]]

\* The parse of every file (a table of ReadCSV, computed once).
ParsedFiles == [file \in Files \cup ValidatorFiles \cup HeaderlessFiles |-> ReadCSV(file)]

ParseFile(file) == ParsedFiles[file]

\* The check of the required columns name and address.
MissingColumns(file) == file.columns # "all"

\* len(hospitals_data) > MAX_CSV_ROWS
TooManyRows(hospitals_data) == Len(hospitals_data) > MAX_CSV_ROWS

\* base64 of the upload text, as stored in BulkOperation.file_content, and
\* base64.b64decode(...).decode('utf-8') of the stored text.
B64Encode(content) == [b64 |-> content]
B64Decode(stored) == stored.b64

\* ---------------------------------------------------------- row validation
NullTokens == {"nan", "none", ""}

\* name / address: str(row.get(..) or row.get(.., "")).strip()
FieldOf(cell) == Strip(PyStr(cell))
\* phone: (str(...).strip() or None)
PhoneOf(cell) == IF Strip(PyStr(cell)) = "" THEN None ELSE Strip(PyStr(cell))

IsSkipped(row) ==
    LET name == FieldOf(row.name)
        address == FieldOf(row.address)
        phone == PhoneOf(row.phone)
    IN  \/ (name = "" /\ address = "" /\ phone = None)
        \/ /\ Lower(name) \in NullTokens
           /\ Lower(address) \in NullTokens
           /\ (phone = None \/ Lower(phone) \in NullTokens)

IsRejected(row) ==
    LET name == FieldOf(row.name)
        address == FieldOf(row.address)
    IN  \/ name = ""
        \/ address = ""
        \/ Lower(name) \in NullTokens
        \/ Lower(address) \in NullTokens

Classify(row) ==
    IF IsSkipped(row) THEN "Skipped"
    ELSE IF IsRejected(row) THEN "Rejected"
    ELSE "Accepted"

\* ------------------------------------------------------------------- state
VARIABLES
    bulk_operations,        \* table bulk_operations: batch id -> row, or NoOp
    hospitals,  \* table hospitals: set of rows
    nextId,     \* next primary key of table hospitals
    task,       \* per batch: the background coroutine process_hospitals_with_sleep
    rs,         \* the running resume_bulk_operation handler, or idle
    response,   \* the HTTP response the last step sent, if it sent one
    resumes,    \* per batch: number of resume requests accepted so far
    rowsSincePause, \* history: per batch, the rows ingested since the batch
                    \* was paused and while it has stayed paused
    active_connections,     \* ConnectionManager: batch id -> list of connections
    sockets     \* per connection: its websocket_endpoint, its client, its
                \* progress_monitor task and the messages delivered to it

vars == <<bulk_operations, hospitals, nextId, task, rs, response, resumes, rowsSincePause,
          active_connections, sockets>>

\* The state of websockets.py: the registry and the connections.
wsVars == <<active_connections, sockets>>

\* The WebSocket connections clients may open.
Sockets == {"w1", "w2"}

\* A connection no client has opened yet.
NoSocket == [pc |-> "none", batch_id |-> "", client |-> "open", monitor |-> "none",
             i |-> 0, target |-> "", disconnected |-> <<>>, received |-> <<>>]

\* ConnectionManager.__init__: active_connections = {}
NoSockets ==
    /\ active_connections = <<>>
    /\ sockets = [w \in Sockets |-> NoSocket]

NoTask == [pc |-> "none", idx |-> 0, success_count |-> 0, failed_count |-> 0,
           errors |-> <<>>, hospitals_data |-> <<>>]

IdleResume == [pc |-> "idle"]

\* No response is sent by the step.
NoResponse == [req |-> "none", batch_id |-> "", code |-> 0]

\* Mutant: the row of the batch is created with its checkpoint at the end.
NewOperation_AtEnd(total, content) ==
    [status |-> "in_progress", total_rows |-> total, processed_rows |-> 0,
     failed_rows |-> 0, current_row |-> total, error_details |-> <<>>,
     file_content |-> content, completed_at |-> FALSE]

\* models.BulkOperation(...) as built by the upload; file_content is <<>>
\* for None and <<text>> for a stored text.
NewOperation(total, content) ==
    [status |-> "in_progress", total_rows |-> total, processed_rows |-> 0,
     failed_rows |-> 0, current_row |-> 0, error_details |-> <<>>,
     file_content |-> content, completed_at |-> FALSE]

NewTask(data) ==
    [pc |-> "queued", idx |-> 1, success_count |-> 0, failed_count |-> 0,
     errors |-> <<>>, hospitals_data |-> data]

Exists(b) == bulk_operations[b] # NoOp

HospitalsOf(b) == { h \in hospitals : h.creation_batch_id = b }

NewHospital(id, row, b) ==
    [id |-> id, name |-> FieldOf(row.name), address |-> FieldOf(row.address),
     phone |-> PhoneOf(row.phone), creation_batch_id |-> b, active |-> FALSE]

\* Mutant: the bulk UPDATE matches no row.
ActivateAll_NoRowMatched(hs, b) == hs

\* Query.update({"active": True}) over the rows of one batch.
ActivateAll(hs, b) ==
    { IF h.creation_batch_id = b THEN [h EXCEPT !.active = TRUE] ELSE h : h \in hs }

ErrorEntry(idx, row) == [row |-> idx, error |-> RequiredMsg, data |-> row]

\* The UPDATE a commit issues for a loaded row: the attributes assigned
\* since the last commit (the domain of pend) are written, the others kept.
Flush(op, pend) ==
    [f \in DOMAIN op |-> IF f \in DOMAIN pend THEN pend[f] ELSE op[f]]

\* `if operation:` around an update of the BulkOperation row.
UpdateOp(b, pend) ==
    [bulk_operations EXCEPT ![b] = IF Exists(b) THEN Flush(bulk_operations[b], pend) ELSE NoOp]

NoPending == [f \in {} |-> 0]

\* History: a row of batch b is ingested (a record stored or a row failure
\* counted); it is counted when the batch is paused at that moment.
CountRow(b) ==
    IF Exists(b) /\ bulk_operations[b].status = "paused" /\ rowsSincePause[b] < MaxRows
    THEN [rowsSincePause EXCEPT ![b] = @ + 1]
    ELSE rowsSincePause

\* The event loop is free when no coroutine is between two awaits.
LoopFree == rs.pc = "idle" /\ \A b \in DOMAIN task : task[b].pc # "run"

\* The store at start-up.  The tables outlive the process: beside the empty
\* store, the start-up state may hold a batch that was accepted with its
\* upload text retained in file_content (models.py: "Base64 encoded CSV
\* content for resume") and whose background task is still queued.
Retained(content) ==
    NewOperation(Len(ParseCSV(content)), <<B64Encode(content)>>)

EmptyStore ==
    /\ bulk_operations = [b \in Batches |-> NoOp]
    /\ task = [b \in Batches |-> NoTask]

RetainedStore ==
    \E content \in Contents :
        /\ bulk_operations = [b \in Batches |-> Retained(content)]
        /\ task = [b \in Batches |-> NewTask(ParseCSV(content))]

NoRun ==
    /\ hospitals = {}
    /\ nextId = 1
    /\ rs = IdleResume
    /\ response = NoResponse
    /\ resumes = [b \in Batches |-> 0]
    /\ rowsSincePause = [b \in Batches |-> 0]
    /\ NoSockets

Init == (EmptyStore \/ RetainedStore) /\ NoRun

\* str(uuid.uuid4()): an id no row and no task carries.
Fresh(b) == ~Exists(b) /\ task[b].pc = "none" /\ HospitalsOf(b) = {}

\* raise HTTPException(status_code=400, ...) of an upload, before a batch
\* id is drawn.
UploadRejection(req, detail) ==
    /\ response' = [req |-> req, batch_id |-> "", code |-> 400, detail |-> detail]
    /\ UNCHANGED <<bulk_operations, hospitals, nextId, task, rs, resumes, rowsSincePause>>

\* ---------------------------------------------- bulk_create_hospitals_realtime
\* Mutant: the upload keeps its text in the row.
UploadFileContent_Retained(file) == <<B64Encode(file.content)>>

\* file_content=None in models.BulkOperation(...): the text is not kept.
UploadFileContent(file) == <<>>

\* POST /hospitals/bulk/big_file with a well-formed upload: the row of the
\* batch is stored and the background task queued; batch_id is a fresh uuid4.
bulk_create_hospitals_realtime(b, file) ==
    /\ UNCHANGED wsVars
    /\ LoopFree
    /\ IF ReadError(file) # ""
       THEN UploadRejection("upload", ReadError(file))
       ELSE LET hospitals_data == ParseFile(file)
            IN  IF TooManyRows(hospitals_data)
                THEN UploadRejection("upload", "Maximum hospitals allowed per CSV file")
                ELSE /\ Fresh(b)
                     /\ bulk_operations' = [bulk_operations EXCEPT
                                               ![b] = NewOperation(Len(hospitals_data),
                                                                   UploadFileContent(file))]
                     /\ task' = [task EXCEPT ![b] = NewTask(hospitals_data)]
                     /\ response' = [req |-> "upload", batch_id |-> b, code |-> 200,
                                     total_hospitals |-> Len(hospitals_data),
                                     processed_hospitals |-> 0, failed_hospitals |-> 0,
                                     batch_activated |-> FALSE]
                     /\ UNCHANGED <<hospitals, nextId, rs, resumes, rowsSincePause>>

\* ------------------------------------------------ process_hospitals_with_sleep
\* The coroutine holds the event loop from its start, or from its wake-up
\* after asyncio.sleep, to its next await.
Holds(b) == task[b].pc = "run" \/ (task[b].pc = "queued" /\ LoopFree)

\* The store either executes the INSERT of a row or fails it (a write
\* error of the database).
StoreOutcomes == BOOLEAN

\* db.commit() of the INSERT raises.  The except branch counts the row and
\* appends its error in memory; its db.query then runs on a session whose
\* transaction was rolled back by the failed flush and has not been reset
\* with db.rollback(): it raises (PendingRollbackError) inside the handler,
\* the exception leaves the loop, and the coroutine ends at `finally`.
WriteErrorInTask(t, idx, row) ==
    [t EXCEPT !.pc = "aborted",
              !.failed_count = t.failed_count + 1,
              !.errors = Append(t.errors, [row |-> idx, error |-> "write error", data |-> row])]

\* One iteration of the loop up to its commit: a skipped row (continue), a
\* rejected row (the except branch and its progress write), or an accepted
\* row up to `await asyncio.sleep`.
process_hospitals_with_sleep_row(b) ==
    /\ UNCHANGED wsVars
    /\ Holds(b)
    /\ task[b].idx <= Len(task[b].hospitals_data)
    /\ LET t == task[b]
           idx == t.idx
           row == t.hospitals_data[idx]
           kind == Classify(row)
       IN  CASE kind = "Skipped" ->
                  /\ task' = [task EXCEPT ![b].pc = "run", ![b].idx = idx + 1]
                  /\ UNCHANGED <<bulk_operations, hospitals, nextId, rowsSincePause>>
             [] kind = "Rejected" ->
                  LET failed_count == t.failed_count + 1
                      errors == Append(t.errors, ErrorEntry(idx, row))
                  IN  /\ task' = [task EXCEPT ![b].pc = "run", ![b].idx = idx + 1,
                                              ![b].failed_count = failed_count,
                                              ![b].errors = errors]
                      /\ bulk_operations' = UpdateOp(b, [current_row |-> idx,
                                             failed_rows |-> failed_count,
                                             error_details |-> errors])
                      /\ rowsSincePause' = CountRow(b)
                      /\ UNCHANGED <<hospitals, nextId>>
             [] kind = "Accepted" ->
                  \E stored \in StoreOutcomes :
                      IF stored
                      THEN /\ hospitals' = hospitals \cup {NewHospital(nextId, row, b)}
                           /\ nextId' = nextId + 1
                           /\ task' = [task EXCEPT ![b].pc = "sleep",
                                                   ![b].success_count = t.success_count + 1]
                           /\ rowsSincePause' = CountRow(b)
                           /\ UNCHANGED bulk_operations
                      ELSE /\ task' = [task EXCEPT ![b] = WriteErrorInTask(t, idx, row)]
                           /\ UNCHANGED <<bulk_operations, hospitals, nextId, rowsSincePause>>
    /\ response' = NoResponse
    /\ UNCHANGED <<rs, resumes>>

\* After the sleep: the progress write of the accepted row.  The write is
\* inside the row's try: when its db.commit() raises, the except branch
\* runs for a row whose record is stored and already counted in
\* success_count.
process_hospitals_with_sleep_progress(b) ==
    /\ UNCHANGED wsVars
    /\ task[b].pc = "sleep"
    /\ LoopFree
    /\ \E stored \in StoreOutcomes :
          IF stored \/ ~Exists(b)
          THEN /\ bulk_operations' = UpdateOp(b, [current_row |-> task[b].idx,
                                      processed_rows |-> task[b].success_count,
                                      error_details |-> task[b].errors])
               /\ task' = [task EXCEPT ![b].pc = "run", ![b].idx = task[b].idx + 1]
          ELSE /\ task' = [task EXCEPT ![b] = WriteErrorInTask(task[b], task[b].idx,
                                                  task[b].hospitals_data[task[b].idx])]
               /\ UNCHANGED bulk_operations
    /\ response' = NoResponse
    /\ UNCHANGED <<hospitals, nextId, rs, resumes, rowsSincePause>>

\* The final update stores nothing: the status stays as it was.
process_hospitals_with_sleep_final_KeepsStatus(b) ==
    /\ Holds(b)
    /\ task[b].idx > Len(task[b].hospitals_data)
    /\ task' = [task EXCEPT ![b].pc = "done"]
    /\ response' = NoResponse
    /\ UNCHANGED <<bulk_operations, hospitals, nextId, rs, resumes, rowsSincePause>>
    /\ UNCHANGED wsVars

\* The final update after the loop.  It is outside every try but the
\* outer try/finally: when its db.commit() raises, nothing of it is stored
\* and the coroutine ends at `finally`.
process_hospitals_with_sleep_final(b) ==
    /\ UNCHANGED wsVars
    /\ Holds(b)
    /\ task[b].idx > Len(task[b].hospitals_data)
    /\ LET t == task[b]
           counters == [processed_rows |-> t.success_count,
                        failed_rows |-> t.failed_count,
                        error_details |-> t.errors]
       IN  IF Exists(b)
           THEN \E stored \in StoreOutcomes :
                  IF ~stored
                  THEN /\ task' = [task EXCEPT ![b].pc = "aborted"]
                       /\ UNCHANGED <<bulk_operations, hospitals>>
                  ELSE /\ task' = [task EXCEPT ![b].pc = "done"]
                       /\ IF t.failed_count = 0
                          THEN /\ bulk_operations' = UpdateOp(b, counters @@
                                      [status |-> "completed", completed_at |-> TRUE])
                               /\ hospitals' = ActivateAll(hospitals, b)
                          ELSE /\ bulk_operations' = UpdateOp(b, counters @@
                                      [status |-> "failed"])
                               /\ UNCHANGED hospitals
           ELSE /\ task' = [task EXCEPT ![b].pc = "done"]
                /\ UNCHANGED <<bulk_operations, hospitals>>
    /\ response' = NoResponse
    /\ UNCHANGED <<nextId, rs, resumes, rowsSincePause>>

\* -------------------------------------------------------- pause_bulk_operation
\* Mutant: the status check is missing, every existing batch is paused.
pause_bulk_operation_NoStatusCheck(b) ==
    /\ UNCHANGED wsVars
    /\ IF ~Exists(b)
       THEN /\ response' = [req |-> "pause", batch_id |-> b, code |-> 404]
            /\ UNCHANGED <<bulk_operations, rowsSincePause>>
       ELSE /\ bulk_operations' = [bulk_operations EXCEPT ![b].status = "paused"]
            /\ response' = [req |-> "pause", batch_id |-> b, code |-> 200]
            /\ rowsSincePause' = [rowsSincePause EXCEPT ![b] = 0]
    /\ UNCHANGED <<hospitals, nextId, task, rs, resumes>>

pause_bulk_operation(b) ==
    /\ UNCHANGED wsVars
    /\ IF ~Exists(b)
       THEN /\ response' = [req |-> "pause", batch_id |-> b, code |-> 404]
            /\ UNCHANGED <<bulk_operations, rowsSincePause>>
       ELSE IF bulk_operations[b].status # "in_progress"
       THEN /\ response' = [req |-> "pause", batch_id |-> b, code |-> 400]
            /\ UNCHANGED <<bulk_operations, rowsSincePause>>
       ELSE /\ bulk_operations' = [bulk_operations EXCEPT ![b].status = "paused"]
            /\ response' = [req |-> "pause", batch_id |-> b, code |-> 200]
            /\ rowsSincePause' = [rowsSincePause EXCEPT ![b] = 0]
    /\ UNCHANGED <<hospitals, nextId, task, rs, resumes>>

\* ------------------------------------------------- activate_hospitals_by_batch
activate_hospitals_by_batch(b) ==
    /\ UNCHANGED wsVars
    /\ IF HospitalsOf(b) = {}
       THEN /\ response' = [req |-> "activate", batch_id |-> b, code |-> 404]
            /\ UNCHANGED hospitals
       ELSE /\ hospitals' = ActivateAll(hospitals, b)
            /\ response' = [req |-> "activate", batch_id |-> b, code |-> 200]
    /\ UNCHANGED <<bulk_operations, nextId, task, rs, resumes, rowsSincePause>>

\* ------------------------------------------------------- resume_bulk_operation
\* ResumeRequest.from_row: <<>> for None, <<n>> for the integer n.
FromRows == { <<>> } \cup { <<n>> : n \in 0..(MaxRows + 1) }

\* Mutant: the resume row is the checkpoint itself.
ResumeRow_AtCheckpoint(op, from_row) ==
    IF from_row # <<>> THEN from_row[1] ELSE op.current_row

\* resume_request.from_row if it is not None, else operation.current_row + 1
ResumeRow(op, from_row) == IF from_row # <<>> THEN from_row[1] ELSE op.current_row + 1

ResumeRejection(b, detail, code) ==
    /\ response' = [req |-> "resume", batch_id |-> b, code |-> code, detail |-> detail]
    /\ UNCHANGED <<bulk_operations, hospitals, nextId, task, rs, resumes, rowsSincePause>>

\* Mutant: the upper limit of the resume row is not checked.
ResumeRowInvalid_NoUpperLimit(resume_row, op) == resume_row < 1

\* resume_row < 1 or resume_row > operation.total_rows
ResumeRowInvalid(resume_row, op) == resume_row < 1 \/ resume_row > op.total_rows

\* Mutant: the resume starts its counters and its error list afresh.
ResumeCounters_Reset(op) ==
    [success_count |-> 0, failed_count |-> 0, errors |-> <<>>]

\* success_count, failed_count and errors continue from the stored row.
ResumeCounters(op) ==
    [success_count |-> op.processed_rows, failed_count |-> op.failed_rows,
     errors |-> op.error_details]

\* The first row the loop visits (1-based) is the resume row.
ResumeCheckpoint(resume_row) == resume_row - 1

\* The request up to the first commit, and the reads that open the loop.
resume_bulk_operation_start(b, from_row) ==
    /\ UNCHANGED wsVars
    /\ LoopFree
    /\ IF ~Exists(b) THEN ResumeRejection(b, "not_found", 404)
       ELSE IF bulk_operations[b].status \notin {"failed", "paused"}
       THEN ResumeRejection(b, "status", 400)
       ELSE IF bulk_operations[b].file_content = <<>>
       THEN ResumeRejection(b, "no_content", 400)
       ELSE LET op == bulk_operations[b]
                resume_row == ResumeRow(op, from_row)
                counters == ResumeCounters(op)
            IN  IF ResumeRowInvalid(resume_row, op)
                THEN ResumeRejection(b, "resume_row", 400)
                ELSE /\ resumes[b] < MaxResumes
                     /\ bulk_operations' = [bulk_operations EXCEPT ![b].status = "in_progress",
                                           ![b].current_row = ResumeCheckpoint(resume_row)]
                     /\ rs' = [pc |-> "loop", batch_id |-> b,
                               from_row |-> from_row,
                               resume_row |-> resume_row,
                               idx |-> resume_row - 1,
                               hospitals_data |-> ParseCSV(B64Decode(op.file_content[1])),
                               success_count |-> counters.success_count,
                               failed_count |-> counters.failed_count,
                               errors |-> counters.errors,
                               pend |-> NoPending]
                     /\ resumes' = [resumes EXCEPT ![b] = @ + 1]
                     /\ response' = NoResponse
                     /\ UNCHANGED <<hospitals, nextId, task, rowsSincePause>>

\* A commit that has to UPDATE the BulkOperation row after the row was
\* deleted raises StaleDataError; the transaction is rolled back and the
\* handler ends with an internal error.
Stale(b, pend) == ~Exists(b) /\ DOMAIN pend # {}

ResumeAbort(b) ==
    /\ rs' = IdleResume
    /\ response' = [req |-> "resume", batch_id |-> b, code |-> 500]
    /\ UNCHANGED <<bulk_operations, hospitals, nextId>>

\* What the except branch assigns for a failed row.
RowFailure(failed_count, errors) ==
    [failed_rows |-> failed_count, error_details |-> errors]

\* What the loop assigns after the insert of an accepted row.
RowSuccess(idx, success_count) ==
    [current_row |-> idx + 1, processed_rows |-> success_count]

\* One iteration of `for idx in range(resume_row - 1, len(hospitals_data))`.
resume_bulk_operation_row ==
    /\ UNCHANGED wsVars
    /\ rs.pc = "loop"
    /\ rs.idx < Len(rs.hospitals_data)
    /\ LET b == rs.batch_id
           idx == rs.idx
           row == rs.hospitals_data[idx + 1]
           kind == Classify(row)
       IN  CASE kind = "Skipped" ->
                  /\ rs' = [rs EXCEPT !.idx = idx + 1]
                  /\ response' = NoResponse
                  /\ UNCHANGED <<bulk_operations, hospitals, nextId, rowsSincePause>>
             [] kind = "Rejected" ->
                  LET failed_count == rs.failed_count + 1
                      errors == Append(rs.errors, ErrorEntry(idx + 1, row))
                      pend == RowFailure(failed_count, errors) @@ rs.pend
                  IN  IF Stale(b, pend)
                      THEN ResumeAbort(b) /\ UNCHANGED rowsSincePause
                      ELSE /\ bulk_operations' = UpdateOp(b, pend)
                           /\ rs' = [rs EXCEPT !.idx = idx + 1,
                                               !.failed_count = failed_count,
                                               !.errors = errors,
                                               !.pend = NoPending]
                           /\ rowsSincePause' = CountRow(b)
                           /\ response' = NoResponse
                           /\ UNCHANGED <<hospitals, nextId>>
             [] kind = "Accepted" ->
                  LET success_count == rs.success_count + 1
                      assigned == RowSuccess(idx, success_count)
                  IN  IF Stale(b, rs.pend)
                      THEN ResumeAbort(b) /\ UNCHANGED rowsSincePause
                      ELSE /\ hospitals' = hospitals \cup {NewHospital(nextId, row, b)}
                           /\ nextId' = nextId + 1
                           /\ rowsSincePause' = CountRow(b)
                           /\ IF (idx + 1) % CheckpointInterval = 0
                              THEN IF Stale(b, assigned)
                                   THEN /\ rs' = IdleResume
                                        /\ response' = [req |-> "resume", batch_id |-> b,
                                                        code |-> 500]
                                        /\ UNCHANGED bulk_operations
                                   ELSE /\ bulk_operations' = UpdateOp(b, assigned @@ rs.pend)
                                        /\ rs' = [rs EXCEPT !.idx = idx + 1,
                                                            !.success_count = success_count,
                                                            !.pend = NoPending]
                                        /\ response' = NoResponse
                              ELSE /\ bulk_operations' = UpdateOp(b, rs.pend)
                                   /\ rs' = [rs EXCEPT !.idx = idx + 1,
                                                       !.success_count = success_count,
                                                       !.pend = assigned]
                                   /\ response' = NoResponse
    /\ UNCHANGED <<task, resumes>>

\* "completed" when no row has failed, else "failed".
FinalStatus(failed_count) == IF failed_count = 0 THEN "completed" ELSE "failed"

\* The final update and the response.
resume_bulk_operation_final ==
    /\ UNCHANGED wsVars
    /\ rs.pc = "loop"
    /\ rs.idx >= Len(rs.hospitals_data)
    /\ LET b == rs.batch_id
           status == FinalStatus(rs.failed_count)
           pend == [status |-> status, error_details |-> rs.errors]
                   @@ (IF rs.failed_count = 0 THEN [completed_at |-> TRUE] ELSE NoPending)
                   @@ rs.pend
       IN  IF Stale(b, pend)
           THEN ResumeAbort(b)
           ELSE /\ bulk_operations' = UpdateOp(b, pend)
                /\ hospitals' = IF rs.failed_count = 0
                                THEN ActivateAll(hospitals, b) ELSE hospitals
                /\ response' = [req |-> "resume", batch_id |-> b, code |-> 200,
                                status |-> status, resumed_from_row |-> rs.resume_row]
                /\ rs' = IdleResume
                /\ UNCHANGED nextId
    /\ UNCHANGED <<task, resumes, rowsSincePause>>

\* -------------------------------------------------------- delete_bulk_operation
\* Mutant: the DELETE of the records has no filter on the batch id.
delete_bulk_operation_EveryRecord(b) ==
    /\ UNCHANGED wsVars
    /\ IF ~Exists(b)
       THEN /\ response' = [req |-> "delete", batch_id |-> b, code |-> 404]
            /\ UNCHANGED <<bulk_operations, hospitals>>
       ELSE /\ hospitals' = {}
            /\ bulk_operations' = [bulk_operations EXCEPT ![b] = NoOp]
            /\ response' = [req |-> "delete", batch_id |-> b, code |-> 200]
    /\ UNCHANGED <<nextId, task, rs, resumes, rowsSincePause>>

delete_bulk_operation(b) ==
    /\ UNCHANGED wsVars
    /\ IF ~Exists(b)
       THEN /\ response' = [req |-> "delete", batch_id |-> b, code |-> 404]
            /\ UNCHANGED <<bulk_operations, hospitals>>
       ELSE /\ hospitals' = hospitals \ HospitalsOf(b)
            /\ bulk_operations' = [bulk_operations EXCEPT ![b] = NoOp]
            /\ response' = [req |-> "delete", batch_id |-> b, code |-> 200]
    /\ UNCHANGED <<nextId, task, rs, resumes, rowsSincePause>>

\* ---------------------------------------------------- delete_hospitals_by_batch
\* DELETE /hospitals/batch/{batch_id}: the records of the batch, not its
\* BulkOperation.
delete_hospitals_by_batch(b) ==
    /\ UNCHANGED wsVars
    /\ IF HospitalsOf(b) = {}
       THEN /\ response' = [req |-> "delete_batch", batch_id |-> b, code |-> 404]
            /\ UNCHANGED hospitals
       ELSE /\ hospitals' = hospitals \ HospitalsOf(b)
            /\ response' = [req |-> "delete_batch", batch_id |-> b, code |-> 200]
    /\ UNCHANGED <<bulk_operations, nextId, task, rs, resumes, rowsSincePause>>

\* -------------------------------------------------------------- create_hospital
\* HospitalCreate.creation_batch_id when the request leaves it out.
DefaultBatchId == "3fa85f64-5717-4562-b3fc-2c963f66afa6"

\* The creation_batch_id a POST /hospitals/ request may carry: any text.
CreateBatchIds == Batches \cup {DefaultBatchId}

\* The body of a POST /hospitals/ request, as parsed cells of one row.
CreateBody == [name |-> "C", address |-> "Addr3", phone |-> NaN]

\* POST /hospitals/: models.Hospital(**hospital.dict()), stored as sent;
\* `active` takes the column default.
create_hospital(batch_id) ==
    /\ UNCHANGED wsVars
    /\ Cardinality({ h \in hospitals : h.name = CreateBody.name }) < MaxCreates
    /\ hospitals' = hospitals \cup {[NewHospital(nextId, CreateBody, batch_id) EXCEPT !.phone = None]}
    /\ nextId' = nextId + 1
    /\ response' = [req |-> "create", batch_id |-> batch_id, code |-> 200]
    /\ UNCHANGED <<bulk_operations, task, rs, resumes, rowsSincePause>>

\* ----------------------------------------------- update_hospital, delete_hospital
\* The keys a request may name: the keys in use and one that is not.
HospitalIds == 1..(MaxRows + 1)

\* The JSON bodies of PUT /hospitals/{hospital_id}; a client may send keys
\* the schema does not declare.
UpdateBodies ==
    { [name |-> "Z"], [phone |-> None], [address |-> "Addr9", phone |-> "999"],
      [name |-> "Z", active |-> FALSE] }

\* Mutant: every key of the body reaches the row.
HospitalUpdate_AnyKey(body) == body

\* schemas.HospitalUpdate and hospital_update.dict(exclude_unset=True): the
\* declared fields the body carries; pydantic drops the other keys.
HospitalUpdate(body) ==
    [f \in DOMAIN body \cap {"name", "address", "phone"} |-> body[f]]

\* PUT /hospitals/{hospital_id}: setattr of the given fields on the one row
\* with that key.
update_hospital(hospital_id, body) ==
    /\ UNCHANGED wsVars
    /\ IF \A h \in hospitals : h.id # hospital_id
       THEN /\ response' = [req |-> "update", batch_id |-> "", code |-> 404]
            /\ UNCHANGED hospitals
       ELSE /\ hospitals' = { IF h.id = hospital_id THEN Flush(h, HospitalUpdate(body)) ELSE h :
                                h \in hospitals }
            /\ response' = [req |-> "update", batch_id |-> "", code |-> 200,
                            hospital_id |-> hospital_id]
    /\ UNCHANGED <<bulk_operations, nextId, task, rs, resumes, rowsSincePause>>

\* Mutant: the DELETE takes every record of the batch of the named record.
delete_hospital_WholeBatch(hospital_id) ==
    /\ UNCHANGED wsVars
    /\ IF \A h \in hospitals : h.id # hospital_id
       THEN /\ response' = [req |-> "delete_hospital", batch_id |-> "", code |-> 404]
            /\ UNCHANGED hospitals
       ELSE /\ hospitals' = { h \in hospitals :
                                \A g \in hospitals :
                                    g.id = hospital_id => h.creation_batch_id # g.creation_batch_id }
            /\ response' = [req |-> "delete_hospital", batch_id |-> "", code |-> 200,
                            hospital_id |-> hospital_id]
    /\ UNCHANGED <<bulk_operations, nextId, task, rs, resumes, rowsSincePause>>

\* DELETE /hospitals/{hospital_id}: db.delete of the one row with that key.
delete_hospital(hospital_id) ==
    /\ UNCHANGED wsVars
    /\ IF \A h \in hospitals : h.id # hospital_id
       THEN /\ response' = [req |-> "delete_hospital", batch_id |-> "", code |-> 404]
            /\ UNCHANGED hospitals
       ELSE /\ hospitals' = { h \in hospitals : h.id # hospital_id }
            /\ response' = [req |-> "delete_hospital", batch_id |-> "", code |-> 200,
                            hospital_id |-> hospital_id]
    /\ UNCHANGED <<bulk_operations, nextId, task, rs, resumes, rowsSincePause>>

\* ------------------------------------------------- get_bulk_operation_progress
storeVars == <<bulk_operations, hospitals, nextId, task, rs, resumes, rowsSincePause>>

\* round((current_row / total_rows) * 100, 2), in hundredths of a percent.
Percentage(current_row, total_rows) ==
    IF total_rows > 0
    THEN (2 * 10000 * current_row + total_rows) \div (2 * total_rows)
    ELSE 0

\* GET /hospitals/bulk/status/{batch_id}
get_bulk_operation_progress(b) ==
    /\ response' =
          IF ~Exists(b)
          THEN [req |-> "status", batch_id |-> b, code |-> 404]
          ELSE [req |-> "status", batch_id |-> b, code |-> 200,
                status |-> bulk_operations[b].status,
                total_rows |-> bulk_operations[b].total_rows,
                current_row |-> bulk_operations[b].current_row,
                processed_rows |-> bulk_operations[b].processed_rows,
                failed_rows |-> bulk_operations[b].failed_rows,
                progress_percentage |-> Percentage(bulk_operations[b].current_row,
                                                   bulk_operations[b].total_rows),
                hospital_count |-> Cardinality(HospitalsOf(b)),
                errors |-> bulk_operations[b].error_details]
    /\ UNCHANGED storeVars
    /\ UNCHANGED wsVars

\* ---------------------------------------------------------------- websockets.py
\* `batch_id in self.active_connections`
Registered(connections, b) == b \in DOMAIN connections

\* list.remove(websocket) raises ValueError when the list does not hold it.
DisconnectRaises(connections, websocket, b) ==
    /\ Registered(connections, b)
    /\ \A k \in 1..Len(connections[b]) : connections[b][k] # websocket

\* ConnectionManager.disconnect when it does not raise: the connection is
\* removed from the list of its batch, and an emptied list is deleted.
Disconnect(connections, websocket, b) ==
    IF ~Registered(connections, b) THEN connections
    ELSE LET rest == SelectSeq(connections[b], LAMBDA c : c # websocket)
         IN  IF rest = <<>>
             THEN [x \in DOMAIN connections \ {b} |-> connections[x]]
             ELSE [connections EXCEPT ![b] = rest]

\* `for conn in disconnected: self.disconnect(conn, batch_id)`: the registry
\* after the calls, up to the first one that raises.
RECURSIVE DisconnectAll(_, _, _)
DisconnectAll(connections, disconnected, b) ==
    IF disconnected = <<>> THEN [connections |-> connections, raised |-> FALSE]
    ELSE IF DisconnectRaises(connections, Head(disconnected), b)
    THEN [connections |-> connections, raised |-> TRUE]
    ELSE DisconnectAll(Disconnect(connections, Head(disconnected), b), Tail(disconnected), b)

\* get_progress_update filters on models.BulkOperation.batch_id, an attribute
\* the class does not have: the access raises AttributeError, and
\* progress_monitor broadcasts this message from its except branch.
MonitorMessage(b) == [error |-> "Progress monitoring error"]

\* websocket_endpoint up to `await websocket.receive_text()`: connect adds the
\* connection to the list of its batch, and the monitor task is created.
websocket_endpoint_connect(w, b) ==
    /\ LoopFree
    /\ sockets[w].pc = "none"
    /\ active_connections' =
          [x \in DOMAIN active_connections \cup {b} |->
              IF x = b
              THEN (IF Registered(active_connections, b)
                    THEN Append(active_connections[b], w) ELSE <<w>>)
              ELSE active_connections[x]]
    /\ sockets' = [sockets EXCEPT ![w].pc = "receiving", ![w].batch_id = b,
                                  ![w].monitor = "ready"]
    /\ UNCHANGED storeVars
    /\ UNCHANGED response

\* The client of a connection goes away.
client_closes(w) ==
    /\ sockets[w].pc = "receiving"
    /\ sockets[w].client = "open"
    /\ sockets' = [sockets EXCEPT ![w].client = "gone"]
    /\ UNCHANGED storeVars
    /\ UNCHANGED <<response, active_connections>>

\* progress_monitor from one await to the next: broadcast_to_batch takes the
\* next connection of the list and sends to it (a send to a client that has
\* gone raises, the connection is noted in `disconnected`), or, at the end of
\* the list, disconnects the noted connections; the monitor then ends.
progress_monitor(w) ==
    /\ LoopFree
    /\ sockets[w].monitor \in {"ready", "sending"}
    /\ LET b == sockets[w].batch_id
           i == IF sockets[w].monitor = "ready" THEN 1 ELSE sockets[w].i
           connections == IF Registered(active_connections, b)
                          THEN active_connections[b] ELSE <<>>
       IN  IF i <= Len(connections)
           THEN LET connection == connections[i]
                IN  /\ sockets' =
                          [x \in Sockets |->
                              LET delivered ==
                                    IF x = connection /\ sockets[x].client = "open"
                                    THEN [sockets[x] EXCEPT
                                            !.received = Append(@, MonitorMessage(b))]
                                    ELSE sockets[x]
                              IN  IF x = w
                                  THEN [delivered EXCEPT
                                          !.monitor = "sending", !.i = i + 1,
                                          !.target = connection,
                                          !.disconnected =
                                              IF sockets[connection].client = "gone"
                                              THEN Append(sockets[w].disconnected, connection)
                                              ELSE sockets[w].disconnected]
                                  ELSE delivered]
                    /\ UNCHANGED active_connections
           ELSE LET after == DisconnectAll(active_connections, sockets[w].disconnected, b)
                IN  /\ active_connections' = after.connections
                    /\ sockets' = [sockets EXCEPT
                                      ![w].monitor = IF after.raised THEN "crashed" ELSE "done"]
    /\ UNCHANGED storeVars
    /\ UNCHANGED response

\* websocket_endpoint after receive_text raised WebSocketDisconnect: the
\* `finally` calls manager.disconnect and then cancels the monitor task. A
\* monitor that has not run yet never runs; in one that awaits a send, the
\* CancelledError is caught by the bare `except:` around the send, which notes
\* the connection in `disconnected` and goes on with the list.
websocket_endpoint_disconnect(w) ==
    /\ LoopFree
    /\ sockets[w].pc = "receiving"
    /\ sockets[w].client = "gone"
    /\ IF DisconnectRaises(active_connections, w, sockets[w].batch_id)
       THEN /\ sockets' = [sockets EXCEPT ![w].pc = "crashed"]
            /\ UNCHANGED active_connections
       ELSE /\ active_connections' = Disconnect(active_connections, w, sockets[w].batch_id)
            /\ sockets' = [sockets EXCEPT
                              ![w].pc = "closed",
                              ![w].monitor = IF @ = "ready" THEN "cancelled" ELSE @,
                              ![w].disconnected =
                                  IF sockets[w].monitor = "sending"
                                  THEN Append(@, sockets[w].target) ELSE @]
    /\ UNCHANGED storeVars
    /\ UNCHANGED response

\* ------------------------------------- synchronous uploads (no BulkOperation)
AcceptedRows(hospitals_data) ==
    SelectSeq(hospitals_data, LAMBDA row : Classify(row) = "Accepted")

RejectedRows(hospitals_data) ==
    SelectSeq(hospitals_data, LAMBDA row : Classify(row) = "Rejected")

\* The records of the accepted rows, with the keys the store assigns in
\* insertion order.
Inserted(to_insert, b, firstId) ==
    { NewHospital(firstId + i - 1, to_insert[i], b) : i \in 1..Len(to_insert) }

\* The result of a synchronous upload; actual_total_count is one more for
\* every row that is not skipped, each of which then succeeds or fails.
SyncResponse(req, b, success_count, failed_count, batch_activated) ==
    [req |-> req, batch_id |-> b, code |-> 200,
     total_hospitals |-> success_count + failed_count,
     processed_hospitals |-> success_count,
     failed_hospitals |-> failed_count,
     batch_activated |-> batch_activated]

\* The 1-based indices of the rows the loop does not skip, in input order.
NonSkippedIndices(hospitals_data) ==
    SelectSeq([i \in 1..Len(hospitals_data) |-> i],
              LAMBDA i : Classify(hospitals_data[i]) # "Skipped")

\* The number of accepted rows among the first idx rows.
AcceptedUpTo(hospitals_data, idx) == Len(AcceptedRows(SubSeq(hospitals_data, 1, idx)))

FailedEntry(idx) == [row |-> idx, status |-> "failed", hospital_id |-> <<>>]

\* processed_hospitals of hospitals_optimized.py at the end of the loop: an
\* entry per row that is not skipped, "queued_for_creation" with
\* hospital_id None for an accepted row.
QueuedEntries(hospitals_data) ==
    LET rows == NonSkippedIndices(hospitals_data)
    IN  [k \in 1..Len(rows) |->
            IF Classify(hospitals_data[rows[k]]) = "Accepted"
            THEN [row |-> rows[k], status |-> "queued_for_creation", hospital_id |-> <<>>]
            ELSE FailedEntry(rows[k])]

\* for obj, record in zip(to_insert, processed_hospitals): the k-th inserted
\* object (key firstId + k - 1) is paired with the k-th entry, and the
\* entry is completed when it is a queued one.
RefreshedEntries(processed_hospitals, inserted, firstId) ==
    [k \in 1..Len(processed_hospitals) |->
        IF k <= inserted /\ processed_hospitals[k].status = "queued_for_creation"
        THEN [processed_hospitals[k] EXCEPT !.hospital_id = <<firstId + k - 1>>,
                                             !.status = "created"]
        ELSE processed_hospitals[k]]

\* processed_hospitals of hospitals.py: the entry of a row whose POST
\* /hospitals/ answered 200 carries created["id"]; refused is the rank,
\* among the accepted rows, of the row the store refuses (0: none).
PostedEntries(hospitals_data, refused, firstId) ==
    LET rows == NonSkippedIndices(hospitals_data)
    IN  [k \in 1..Len(rows) |->
            LET rank == AcceptedUpTo(hospitals_data, rows[k])
            IN  IF Classify(hospitals_data[rows[k]]) # "Accepted" \/ (refused # 0 /\ rank = refused)
                THEN FailedEntry(rows[k])
                ELSE [row |-> rows[k], status |-> "created_and_updated",
                      hospital_id |-> <<firstId + rank - 1
                                          - (IF refused # 0 /\ rank > refused THEN 1 ELSE 0)>>]]

\* The accepted rows whose POST /hospitals/ answers 200: all but the one,
\* if any, that the store refuses (refused = 0: none is refused).
Posted(accepted, refused) ==
    [i \in 1..(Len(accepted) - (IF refused = 0 THEN 0 ELSE 1)) |->
        IF refused # 0 /\ i >= refused THEN accepted[i + 1] ELSE accepted[i]]

\* The input checks of the synchronous uploads, in the order of the code:
\* "" when the upload is accepted.
SyncRejection(file) ==
    IF ReadError(file) # "" THEN ReadError(file)
    ELSE IF MissingColumns(file) THEN "Missing required columns"
    ELSE IF file.kind = "headerless" /\ ShortLines(file.content) # {}
         THEN "At least 2 columns required (name, address)"
    ELSE IF TooManyRows(ParseFile(file)) THEN "Maximum hospitals allowed per CSV file"
    ELSE ""

\* validation.py, POST /hospitals/bulk/validate: the rows are classified and
\* counted, nothing is stored.
validate_csv_file(file) ==
    /\ UNCHANGED wsVars
    /\ LoopFree
    /\ IF SyncRejection(file) # ""
       THEN UploadRejection("validate", SyncRejection(file))
       ELSE LET hospitals_data == ParseFile(file)
            IN  /\ response' = SyncResponse("validate", "validation_only",
                                            Len(AcceptedRows(hospitals_data)),
                                            Len(RejectedRows(hospitals_data)), FALSE)
                /\ UNCHANGED <<bulk_operations, hospitals, nextId, task, rs, resumes,
                               rowsSincePause>>

\* hospitals_optimized.py, POST /hospitals/bulk/optimized/: db.add_all of the
\* accepted rows, then one UPDATE when no row failed.
bulk_create_hospitals_optimized(b, file) ==
    /\ UNCHANGED wsVars
    /\ LoopFree
    /\ IF SyncRejection(file) # ""
       THEN UploadRejection("bulk_optimized", SyncRejection(file))
       ELSE LET hospitals_data == ParseFile(file)
                to_insert == AcceptedRows(hospitals_data)
                success_count == Len(to_insert)
                failed_count == Len(RejectedRows(hospitals_data))
                stored == hospitals \cup Inserted(to_insert, b, nextId)
                activate == success_count > 0 /\ failed_count = 0
            IN  /\ Fresh(b)
                /\ hospitals' = IF success_count > 0
                                THEN (IF failed_count = 0 THEN ActivateAll(stored, b) ELSE stored)
                                ELSE hospitals
                /\ nextId' = IF success_count > 0 THEN nextId + success_count ELSE nextId
                /\ response' = SyncResponse("bulk_optimized", b, success_count, failed_count,
                                            activate)
                                @@ [hospitals |->
                                     IF success_count > 0
                                     THEN RefreshedEntries(QueuedEntries(hospitals_data),
                                                           success_count, nextId)
                                     ELSE QueuedEntries(hospitals_data)]
                /\ UNCHANGED <<bulk_operations, task, rs, resumes, rowsSincePause>>

\* hospitals.py, POST /hospitals/bulk: one POST /hospitals/ (create_hospital)
\* per accepted row, then PATCH /hospitals/batch/{batch_id}/activate
\* (activate_hospitals_by_batch) when every row succeeded.
bulk_create_hospitals(b, file) ==
    /\ UNCHANGED wsVars
    /\ LoopFree
    /\ IF SyncRejection(file) # ""
       THEN UploadRejection("bulk", SyncRejection(file))
       ELSE Fresh(b) /\ \E refused \in 0..Len(AcceptedRows(ParseFile(file))) :
            LET hospitals_data == ParseFile(file)
                created == Posted(AcceptedRows(hospitals_data), refused)
                success_count == Len(created)
                failed_count == Len(RejectedRows(hospitals_data))
                                    + (IF refused = 0 THEN 0 ELSE 1)
                stored == hospitals \cup Inserted(created, b, nextId)
                activate == success_count > 0 /\ failed_count = 0
            IN  /\ hospitals' = IF activate THEN ActivateAll(stored, b) ELSE stored
                /\ nextId' = nextId + success_count
                /\ response' = SyncResponse("bulk", b, success_count, failed_count, activate)
                                @@ [hospitals |-> PostedEntries(hospitals_data, refused, nextId)]
                /\ UNCHANGED <<bulk_operations, task, rs, resumes, rowsSincePause>>

\* ------------------------------------------------------------ specification
\* The ingestion of uploads that pass the input checks.
Next ==
    \/ \E b \in Batches, file \in PlainFiles : bulk_create_hospitals_realtime(b, file)
    \/ \E b \in Batches : process_hospitals_with_sleep_row(b)
    \/ \E b \in Batches : process_hospitals_with_sleep_progress(b)
    \/ \E b \in Batches : process_hospitals_with_sleep_final(b)
    \/ \E b \in Batches : pause_bulk_operation(b)
    \/ \E b \in Batches : delete_bulk_operation(b)
    \/ \E b \in Batches : activate_hospitals_by_batch(b)
    \/ \E b \in Batches, file \in PlainFiles : bulk_create_hospitals_optimized(b, file)
    \/ \E b \in Batches, file \in PlainFiles : bulk_create_hospitals(b, file)
    \/ \E b \in Batches, from_row \in FromRows : resume_bulk_operation_start(b, from_row)
    \/ resume_bulk_operation_row
    \/ resume_bulk_operation_final

Spec == Init /\ [][Next]_vars

\* The program started on empty tables, given every file of Files.  No
\* handler stores file_content, so the resume loop is never entered here
\* and Next leaves it out.
InitEmpty == EmptyStore /\ NoRun

NextFromEmpty ==
    \/ \E b \in Batches, file \in Files : bulk_create_hospitals_realtime(b, file)
    \/ \E b \in Batches : process_hospitals_with_sleep_row(b)
    \/ \E b \in Batches : process_hospitals_with_sleep_progress(b)
    \/ \E b \in Batches : process_hospitals_with_sleep_final(b)
    \/ \E b \in Batches : pause_bulk_operation(b)
    \/ \E b \in Batches : delete_bulk_operation(b)
    \/ \E b \in Batches : activate_hospitals_by_batch(b)
    \/ \E b \in Batches, file \in Files : bulk_create_hospitals_optimized(b, file)
    \/ \E b \in Batches, file \in Files : bulk_create_hospitals(b, file)
    \/ \E b \in Batches, from_row \in FromRows : resume_bulk_operation_start(b, from_row)

SpecFromEmpty == InitEmpty /\ [][NextFromEmpty]_vars

\* The hospital directory beside the uploads: the program started on empty
\* tables, with single-record creation (POST /hospitals/) among the requests.
NextDirectory ==
    \/ NextFromEmpty
    \/ \E batch_id \in CreateBatchIds : create_hospital(batch_id)

SpecDirectory == InitEmpty /\ [][NextDirectory]_vars

\* The validator on its own: the files of ValidatorFiles given to every
\* ingestion variant; the start-up store may hold a batch accepted with such
\* a file retained.
RetainedValidatorStore ==
    \E r \in ValidatorRows :
        /\ bulk_operations = [b \in Batches |-> Retained(<<r>>)]
        /\ task = [b \in Batches |-> NewTask(ParseCSV(<<r>>))]

InitValidator == (EmptyStore \/ RetainedValidatorStore) /\ NoRun

NextValidator ==
    \/ \E b \in Batches, file \in ValidatorFiles : bulk_create_hospitals_realtime(b, file)
    \/ \E b \in Batches, file \in ValidatorFiles : bulk_create_hospitals_optimized(b, file)
    \/ \E b \in Batches, file \in ValidatorFiles : bulk_create_hospitals(b, file)
    \/ \E file \in ValidatorFiles : validate_csv_file(file)
    \/ \E b \in Batches : process_hospitals_with_sleep_row(b)
    \/ \E b \in Batches : process_hospitals_with_sleep_progress(b)
    \/ \E b \in Batches : process_hospitals_with_sleep_final(b)
    \/ \E b \in Batches : pause_bulk_operation(b)
    \/ \E b \in Batches, from_row \in FromRows : resume_bulk_operation_start(b, from_row)
    \/ resume_bulk_operation_row
    \/ resume_bulk_operation_final

SpecValidator == InitValidator /\ [][NextValidator]_vars

\* Two batches side by side, each over an upload of one data line.
BatchPair == {"b1", "b2"}

\* One accepted line, or one rejected line.
PairContents == { << <<"A", "Addr1", "555">> >>, << <<"B", "", "">> >> }

\* At start-up each of the two batches is retained with its task queued.
InitPair ==
    /\ \E kept \in [BatchPair -> PairContents] :
          /\ bulk_operations = [b \in BatchPair |-> Retained(kept[b])]
          /\ task = [b \in BatchPair |-> NewTask(ParseCSV(kept[b]))]
    /\ hospitals = {}
    /\ nextId = 1
    /\ rs = IdleResume
    /\ response = NoResponse
    /\ resumes = [b \in BatchPair |-> 0]
    /\ rowsSincePause = [b \in BatchPair |-> 0]
    /\ NoSockets

\* The steps of the ingestion, pause, resume, activation and deletion of
\* batch a.
StepOn(a) ==
    \/ process_hospitals_with_sleep_row(a)
    \/ process_hospitals_with_sleep_progress(a)
    \/ process_hospitals_with_sleep_final(a)
    \/ pause_bulk_operation(a)
    \/ resume_bulk_operation_start(a, <<>>)
    \/ (rs.pc = "loop" /\ rs.batch_id = a /\ resume_bulk_operation_row)
    \/ (rs.pc = "loop" /\ rs.batch_id = a /\ resume_bulk_operation_final)
    \/ activate_hospitals_by_batch(a)
    \/ delete_hospitals_by_batch(a)
    \/ delete_bulk_operation(a)

\* The steps of the background task of batch b.
IngestionOf(b) ==
    \/ process_hospitals_with_sleep_row(b)
    \/ process_hospitals_with_sleep_progress(b)
    \/ process_hospitals_with_sleep_final(b)

\* Batch b1 is ingested, paused, resumed, activated and deleted while the
\* task of batch b2 ingests its rows and b2 is paused or deleted.
NextPair ==
    \/ StepOn("b1")
    \/ IngestionOf("b2")
    \/ pause_bulk_operation("b2")
    \/ delete_bulk_operation("b2")

SpecPair == InitPair /\ [][NextPair]_vars

\* The single records of a tracked batch are updated and deleted while the
\* batch is ingested.
RecordContents ==
    { << <<"A", "Addr1", "555">>, <<"A", "Addr1", "555">> >>,
      << <<"A", "Addr1", "555">>, <<"B", "", "">> >> }

RecordFiles == { [kind |-> "csv", columns |-> "all", content |-> l] : l \in RecordContents }

NextRecords ==
    \/ \E file \in RecordFiles : bulk_create_hospitals_realtime("b1", file)
    \/ IngestionOf("b1")
    \/ \E hospital_id \in HospitalIds, body \in UpdateBodies :
            update_hospital(hospital_id, body)
    \/ \E hospital_id \in HospitalIds : delete_hospital(hospital_id)

SpecRecords == InitEmpty /\ [][NextRecords]_vars

\* The uploads of text without a header line.
NextHeaderless ==
    \/ \E file \in HeaderlessFiles : bulk_create_hospitals_realtime("b1", file)
    \/ \E file \in HeaderlessFiles : bulk_create_hospitals_optimized("b1", file)
    \/ \E file \in HeaderlessFiles : bulk_create_hospitals("b1", file)
    \/ \E file \in HeaderlessFiles : validate_csv_file(file)
    \/ IngestionOf("b1")
    \/ pause_bulk_operation("b1")
    \/ activate_hospitals_by_batch("b1")
    \/ delete_bulk_operation("b1")

SpecHeaderless == InitEmpty /\ [][NextHeaderless]_vars

\* A tracked batch of one data line is ingested while its progress is
\* queried and subscribers of it connect and go away.
LiveFiles == { [kind |-> "csv", columns |-> "all", content |-> l] : l \in PairContents }

NextLive ==
    \/ \E file \in LiveFiles : bulk_create_hospitals_realtime("b1", file)
    \/ IngestionOf("b1")
    \/ get_bulk_operation_progress("b1")
    \/ \E w \in Sockets : websocket_endpoint_connect(w, "b1")
    \/ \E w \in Sockets : client_closes(w)
    \/ \E w \in Sockets : progress_monitor(w)
    \/ \E w \in Sockets : websocket_endpoint_disconnect(w)

SpecLive == InitEmpty /\ [][NextLive]_vars

\* The program started on empty tables gets uploads, status queries and
\* batch activations, and no pause, resume or delete request; the store
\* executes every write.  BackgroundTasks starts the queued coroutine after
\* the response, and the event loop wakes it after each asyncio.sleep: a
\* step of the coroutine that stays possible is taken.
QuietStep(b) == IngestionOf(b) /\ task'[b].pc # "aborted"

NextQuiet ==
    \/ \E b \in Batches, file \in Files : bulk_create_hospitals_realtime(b, file)
    \/ \E b \in Batches : QuietStep(b)
    \/ \E b \in Batches : get_bulk_operation_progress(b)
    \/ \E b \in Batches : activate_hospitals_by_batch(b)

SpecQuiet ==
    /\ InitEmpty
    /\ [][NextQuiet]_vars
    /\ \A b \in Batches : WF_vars(QuietStep(b))

\* The requests that delete no record: uploads, the task, pause, resume
\* and batch activation.
NextKeep ==
    \/ \E b \in Batches, file \in PlainFiles : bulk_create_hospitals_realtime(b, file)
    \/ \E b \in Batches : IngestionOf(b)
    \/ \E b \in Batches : pause_bulk_operation(b)
    \/ \E b \in Batches : activate_hospitals_by_batch(b)
    \/ \E b \in Batches, from_row \in FromRows : resume_bulk_operation_start(b, from_row)
    \/ resume_bulk_operation_row
    \/ resume_bulk_operation_final

SpecKeep == Init /\ [][NextKeep]_vars

\* A retained batch is ingested, paused, resumed and activated while its
\* single records are updated and deleted.
InitFlags ==
    /\ \E content \in PairContents :
          /\ bulk_operations = [b \in Batches |-> Retained(content)]
          /\ task = [b \in Batches |-> NewTask(ParseCSV(content))]
    /\ NoRun

NextFlags ==
    \/ IngestionOf("b1")
    \/ pause_bulk_operation("b1")
    \/ resume_bulk_operation_start("b1", <<>>)
    \/ resume_bulk_operation_row
    \/ resume_bulk_operation_final
    \/ activate_hospitals_by_batch("b1")
    \/ \E hospital_id \in HospitalIds, body \in UpdateBodies :
            update_hospital(hospital_id, body)
    \/ \E hospital_id \in HospitalIds : delete_hospital(hospital_id)

SpecFlags == InitFlags /\ [][NextFlags]_vars

\* ------------------------------------------------------------- the claims
IsPrefix(s, t) == Len(s) <= Len(t) /\ SubSeq(t, 1, Len(s)) = s

\* The step in which the background task of b makes its final update.
TaskFinishes(b) == task[b].pc # "done" /\ task'[b].pc = "done"

\* The step in which a resume of b makes its final update and answers.
ResumeFinishes(b) ==
    /\ rs.pc = "loop" /\ rs.batch_id = b
    /\ rs'.pc = "idle" /\ response'.code = 200

\* The step in which a synchronous upload of batch b answers.
SyncFinishes(b) ==
    /\ response'.req \in {"bulk", "bulk_optimized"}
    /\ response'.batch_id = b

AllActive(hs) == \A h \in hs : h.active
NoneActive(hs) == \A h \in hs : ~h.active

C2_FailureActivatesNone ==
    [][\A b \in Batches :
        /\ ( /\ TaskFinishes(b) \/ ResumeFinishes(b)
             /\ Exists(b)'
             /\ bulk_operations'[b].failed_rows > 0 )
           => NoneActive(HospitalsOf(b)') /\ bulk_operations'[b].status = "failed"
        /\ ( /\ SyncFinishes(b)
             /\ response'.failed_hospitals > 0 )
           => NoneActive(HospitalsOf(b)')
      ]_vars

AllowedTransitions ==
    { <<"in_progress", "completed">>, <<"in_progress", "failed">>,
      <<"in_progress", "paused">>, <<"paused", "in_progress">>,
      <<"failed", "in_progress">> }

C4_StatusTransitions ==
    [][\A b \in Batches :
        (Exists(b) /\ Exists(b)' /\ bulk_operations'[b].status # bulk_operations[b].status)
            => <<bulk_operations[b].status, bulk_operations'[b].status>> \in AllowedTransitions
      ]_vars

\* C5: after a pause is accepted, the engine finishes at most the row it is
\* processing: while the batch stays paused at most one row is ingested.
C5_PauseStopsIngestion ==
    \A b \in Batches : rowsSincePause[b] <= 1

\* C6: a pause request succeeds only when the batch is in_progress, and then
\* only sets the status to paused; otherwise it is rejected and the
\* BulkOperation and the records are unchanged; an unknown id is not found.
PauseAnswered(b) == response'.req = "pause" /\ response'.batch_id = b

C6_PauseOnlyInProgress ==
    [][\A b \in Batches :
        PauseAnswered(b) =>
            /\ hospitals' = hospitals
            /\ IF Exists(b) /\ bulk_operations[b].status = "in_progress"
               THEN /\ response'.code = 200
                    /\ bulk_operations' = [bulk_operations EXCEPT ![b].status = "paused"]
               ELSE /\ response'.code = IF Exists(b) THEN 400 ELSE 404
                    /\ bulk_operations' = bulk_operations
      ]_vars

C6_Witness ==
    \E b \in Batches :
        /\ response = [req |-> "pause", batch_id |-> b, code |-> 400]
        /\ Exists(b) /\ bulk_operations[b].status = "failed"
        /\ HospitalsOf(b) # {}

\* C7: a resume request for a batch without retained content, or in a status
\* other than failed and paused, or with a resume row outside 1..total_rows,
\* is rejected and leaves the BulkOperation and all records unchanged.
ResumeMustReject(b, from_row) ==
    \/ bulk_operations[b].file_content = <<>>
    \/ bulk_operations[b].status \notin {"failed", "paused"}
    \/ from_row # <<>> /\ (from_row[1] < 1 \/ from_row[1] > bulk_operations[b].total_rows)
    \/ from_row = <<>> /\ bulk_operations[b].current_row + 1 > bulk_operations[b].total_rows

C7_RejectedResumeChangesNothing ==
    [][\A b \in Batches, from_row \in FromRows :
        (resume_bulk_operation_start(b, from_row) /\ Exists(b) /\ ResumeMustReject(b, from_row))
            => /\ response'.req = "resume" /\ response'.code = 400
               /\ UNCHANGED <<bulk_operations, hospitals, rs>>
      ]_vars

C7_Witness ==
    \E b \in Batches :
        /\ response.req = "resume" /\ response.code = 400
        /\ response.detail = "resume_row"
        /\ Exists(b) /\ bulk_operations[b].status = "paused"
        /\ HospitalsOf(b) # {}

\* The step in which a resume request for b is accepted.
ResumeAccepted(b) == rs.pc = "idle" /\ rs'.pc = "loop" /\ rs'.batch_id = b

ResumeMoves(b) ==
    /\ rs' # rs
    /\ \/ rs.pc = "loop" /\ rs.batch_id = b
       \/ rs'.pc = "loop" /\ rs'.batch_id = b

C9_ResumeAccumulates ==
    [][\A b \in Batches :
        (ResumeMoves(b) /\ Exists(b) /\ Exists(b)') =>
            /\ bulk_operations'[b].processed_rows >= bulk_operations[b].processed_rows
            /\ bulk_operations'[b].failed_rows >= bulk_operations[b].failed_rows
            /\ IsPrefix(bulk_operations[b].error_details, bulk_operations'[b].error_details)
      ]_vars

C9_Witness ==
    \E b \in Batches :
        /\ response.req = "resume" /\ response.code = 200
        /\ Exists(b)
        /\ bulk_operations[b].failed_rows >= 2 /\ Len(bulk_operations[b].error_details) >= 2
        /\ bulk_operations[b].processed_rows >= 1

\* C10, as claimed: a resume request without from_row for a failed batch with
\* retained content is accepted and moves the batch to in_progress.
FailedWithContent(b) ==
    Exists(b) /\ bulk_operations[b].status = "failed" /\ bulk_operations[b].file_content # <<>>

Deleted(b) == ~Exists(b) /\ task[b].pc # "none"

\* C11: after delete_bulk_operation has succeeded for a batch id, no record
\* with that creation_batch_id exists in any later state.
C11_DeleteLeavesNoRecord ==
    \A b \in Batches : Deleted(b) => HospitalsOf(b) = {}

\* Some but not all of the records are active.
PartlyActive(hs) == ~AllActive(hs) /\ ~NoneActive(hs)

\* The tracked batch b has finished with zero failures.
FinishedClean(b) ==
    Exists(b) /\ bulk_operations[b].status = "completed" /\ bulk_operations[b].failed_rows = 0

\* C12: no state shows some but not all records of a batch that finished
\* with zero failures as active: the records become active together, in
\* the step that makes the batch completed.
C12_NoPartialActivation ==
    \A b \in Batches : FinishedClean(b) => ~PartlyActive(HospitalsOf(b))

\* The step turns a record of batch b active (or stores it active).
Activated(b) ==
    \E h \in HospitalsOf(b)' :
        h.active /\ ~(\E g \in HospitalsOf(b) : g.id = h.id /\ g.active)

\* C13: a step sets the active flag of a record only when the record's
\* batch has completed a full pass with zero row failures; this holds for
\* activate_hospitals_by_batch too, for any batch id at any time.
C13_ActivationOnlyAfterCleanPass ==
    [][\A b \in Batches :
        Activated(b) =>
            \/ FinishedClean(b)'
            \/ SyncFinishes(b) /\ response'.failed_hospitals = 0
      ]_vars

\* C14: in every state, the creation_batch_id of each stored record is the
\* id of an existing BulkOperation, whichever operation stored the record.
C14_RecordsReferToOperation ==
    \A h \in hospitals :
        h.creation_batch_id \in Batches /\ Exists(h.creation_batch_id)

\* C15: whenever a BulkOperation is completed or failed,
\* processed_rows + failed_rows = current_row.
C15_TerminalCountersMeetCheckpoint ==
    \A b \in Batches :
        (Exists(b) /\ bulk_operations[b].status \in {"completed", "failed"}) =>
            bulk_operations[b].processed_rows + bulk_operations[b].failed_rows
                = bulk_operations[b].current_row

\* The number of parsed rows the validator does not skip.
NonSkipped(hospitals_data) ==
    Len(SelectSeq(hospitals_data, LAMBDA row : Classify(row) # "Skipped"))

\* C16: for every upload, the total_rows stored in the BulkOperation, and
\* the total a synchronous upload reports, is the number of parsed rows that
\* are not Skipped.
C16_TotalCountsNonSkippedRows ==
    [][\A b \in Batches, file \in Files :
        /\ (bulk_create_hospitals_realtime(b, file) /\ response'.code = 200) =>
               /\ bulk_operations'[b].total_rows = NonSkipped(ParseFile(file))
               /\ response'.total_hospitals = NonSkipped(ParseFile(file))
        /\ ( /\ bulk_create_hospitals_optimized(b, file) \/ bulk_create_hospitals(b, file)
             /\ response'.code = 200 ) =>
               response'.total_hospitals = NonSkipped(ParseFile(file))
      ]_vars

\* C17: a batch whose pass finishes with processed_rows = 0 is marked
\* failed, never completed, and the finishing step activates nothing.
C17_EmptyPassFails ==
    [][\A b \in Batches :
        ( /\ TaskFinishes(b) \/ ResumeFinishes(b)
          /\ Exists(b)'
          /\ bulk_operations'[b].processed_rows = 0 )
        => bulk_operations'[b].status = "failed" /\ ~Activated(b)
      ]_vars

\* The file has one of the input errors: no content, only white space, not
\* UTF-8, a required column missing, or more rows than the limit.
InputError(file) ==
    \/ file.kind # "csv"
    \/ file.columns # "all"
    \/ Len(file.content) > MAX_CSV_ROWS

\* C18: an upload with an input error is rejected before a batch id is
\* drawn: it creates no BulkOperation and no record.
C18_InputErrorCreatesNothing ==
    [][\A b \in Batches, file \in Files :
        ( /\ \/ bulk_create_hospitals_realtime(b, file)
             \/ bulk_create_hospitals_optimized(b, file)
             \/ bulk_create_hospitals(b, file)
          /\ InputError(file) )
        => /\ response'.code = 400
           /\ UNCHANGED <<bulk_operations, hospitals, task, nextId>>
      ]_vars

\* The background task of b has stopped, with or without its final update.
TaskStopped(b) == task[b].pc \in {"done", "aborted"}

\* C19: the failure of one row never aborts the batch: the ingestion stops
\* only after it has attempted every row of the input, and a synchronous
\* upload accounts for every row that is not skipped.
C19_RowFailureNeverAborts ==
    /\ \A b \in Batches :
          TaskStopped(b) => task[b].idx > Len(task[b].hospitals_data)
    /\ response.req = "bulk" /\ response.code = 200 =>
          \E file \in Files :
              /\ SyncRejection(file) = ""
              /\ response.total_hospitals = NonSkipped(ParseFile(file))
              /\ Cardinality(HospitalsOf(response.batch_id)) = response.processed_hospitals

\* A field is absent when its cell is empty (or not there), or holds the
\* token nan or none in any case.
Absent(value) ==
    \/ value \in {NaN, Missing}
    \/ Strip(value) = ""
    \/ Lower(Strip(value)) \in {"nan", "none"}

\* The outcome the validator is to give for a parsed row.
ExpectedOutcome(row) ==
    IF Absent(row.name) /\ Absent(row.address) /\ Absent(row.phone) THEN "Skipped"
    ELSE IF Absent(row.name) \/ Absent(row.address) THEN "Rejected"
    ELSE "Accepted"

ExpectedCount(hospitals_data, outcome) ==
    Len(SelectSeq(hospitals_data, LAMBDA row : ExpectedOutcome(row) = outcome))

\* The outcome the step of the background task shows for the row it handles.
TaskOutcome(b) ==
    IF task'[b].pc \in {"sleep", "aborted"} THEN "Accepted"
    ELSE IF task'[b].failed_count > task[b].failed_count THEN "Rejected"
    ELSE "Skipped"

\* The outcome the step of the resume loop shows for the row it handles.
ResumeOutcome ==
    IF rs'.success_count > rs.success_count THEN "Accepted"
    ELSE IF rs'.failed_count > rs.failed_count THEN "Rejected"
    ELSE "Skipped"

\* C20: every ingestion variant gives a row the outcome Skipped when name,
\* address and phone are all absent, otherwise Rejected when name or address
\* is absent, otherwise Accepted.
C20_ValidatorOutcome ==
    [][/\ \A b \in Batches :
            ( /\ task[b].pc \in {"queued", "run"}
              /\ task[b].idx <= Len(task[b].hospitals_data)
              /\ task'[b] # task[b] )
            => TaskOutcome(b) = ExpectedOutcome(task[b].hospitals_data[task[b].idx])
       /\ ( /\ rs.pc = "loop" /\ rs'.pc = "loop"
            /\ rs.idx < Len(rs.hospitals_data)
            /\ rs' # rs )
            => ResumeOutcome = ExpectedOutcome(rs.hospitals_data[rs.idx + 1])
       /\ \A b \in Batches, file \in ValidatorFiles :
            ( /\ \/ bulk_create_hospitals_optimized(b, file)
                 \/ bulk_create_hospitals(b, file)
                 \/ validate_csv_file(file)
              /\ response'.code = 200 )
            => /\ response'.total_hospitals
                    = ExpectedCount(ParseFile(file), "Accepted")
                      + ExpectedCount(ParseFile(file), "Rejected")
               /\ response'.failed_hospitals >= ExpectedCount(ParseFile(file), "Rejected")
               /\ response'.processed_hospitals <= ExpectedCount(ParseFile(file), "Accepted")
      ]_vars

\* The step in which the tracked upload of batch b is answered.
UploadAnswered(b) ==
    response'.req = "upload" /\ response'.code = 200 /\ response'.batch_id = b

\* C21: the upload that starts a background batch stores the BulkOperation
\* as in_progress with processed_rows = failed_rows = current_row = 0 and
\* answers with the batch id, zero counts and batch_activated false; no row
\* is ingested in that step, the rows are left to the queued task.
C21_UploadReturnsBeforeIngestion ==
    [][\A b \in Batches :
        UploadAnswered(b) =>
            /\ ~Exists(b) /\ Exists(b)'
            /\ bulk_operations'[b].status = "in_progress"
            /\ bulk_operations'[b].processed_rows = 0
            /\ bulk_operations'[b].failed_rows = 0
            /\ bulk_operations'[b].current_row = 0
            /\ response'.processed_hospitals = 0
            /\ response'.failed_hospitals = 0
            /\ response'.batch_activated = FALSE
            /\ hospitals' = hospitals
            /\ task'[b].pc = "queued" /\ task'[b].idx = 1
            /\ task'[b].success_count = 0 /\ task'[b].failed_count = 0
      ]_vars

C21_Witness ==
    \E b \in Batches :
        /\ response.req = "upload" /\ response.code = 200 /\ response.batch_id = b
        /\ Exists(b) /\ bulk_operations[b].total_rows = MaxRows
        /\ task[b].pc = "queued"
        /\ HospitalsOf(b) = {}

\* The background task of batch b has started its loop and has not ended.
TaskRunning(b) == task[b].pc \in {"run", "sleep"}

\* A resume request of batch b is inside its loop.
ResumeRunning(b) == rs.pc = "loop" /\ rs.batch_id = b

TaskAborts(b) == task[b].pc # "aborted" /\ task'[b].pc = "aborted"

\* C23: when the background ingestion of a batch stops on a failure that is
\* not handled as a row error, the BulkOperation ends in status failed; it
\* does not stay in_progress.
C23_UncaughtFailureEndsFailed ==
    [][\A b \in Batches :
        TaskAborts(b) /\ Exists(b)' => bulk_operations'[b].status = "failed"
      ]_vars

\* The background task of batch b ingests the upload of the three lines
\* (A, Addr1, 555), (empty, empty, empty), (B, empty, empty).
IngestsThreeLines(b) == Exists(b) /\ task[b].hospitals_data = ParseCSV(ThreeLines)

\* C24: for the upload of the lines (A, Addr1, 555), (empty, empty, empty),
\* (B, empty, empty), total_rows is 2; when the task has ended the line of
\* empty cells has left no trace, line B is recorded as rejected with
\* 'Name and address are required', the batch is failed and no record of
\* it is active.
C24_ThreeLineUpload ==
    \A b \in Batches :
        IngestsThreeLines(b) =>
            /\ bulk_operations[b].total_rows = 2
            /\ task[b].pc = "done" =>
                  /\ bulk_operations[b].status = "failed"
                  /\ Len(bulk_operations[b].error_details) = 1
                  /\ bulk_operations[b].error_details[1].error = RequiredMsg
                  /\ bulk_operations[b].error_details[1].data.name = "B"
                  /\ NoneActive(HospitalsOf(b))

\* The entries of a bulk upload result that carry row index idx.
EntriesOf(result, idx) ==
    { k \in 1..Len(result.hospitals) : result.hospitals[k].row = idx }

\* Entry e reports row as created: status 'created' and the key of a stored
\* record of batch b that carries the row's fields.
ReportsCreated(e, row, b, hs) ==
    /\ e.status = "created"
    /\ e.hospital_id # <<>>
    /\ \E h \in hs : h = [NewHospital(e.hospital_id[1], row, b) EXCEPT !.active = h.active]

\* C25: in the result of a bulk upload every Accepted row has exactly one
\* outcome entry with its row index; unless the store refused the row, the
\* entry has status 'created' and the id of the persisted record, wherever
\* the rejected rows are.
C25_AcceptedRowsReportedCreated ==
    [][\A b \in Batches, file \in PlainFiles :
        /\ bulk_create_hospitals_optimized(b, file) \/ bulk_create_hospitals(b, file)
        /\ response'.code = 200
        => \A idx \in 1..Len(ParseFile(file)) :
              Classify(ParseFile(file)[idx]) = "Accepted" =>
                  /\ Cardinality(EntriesOf(response', idx)) = 1
                  /\ \A k \in EntriesOf(response', idx) :
                        \/ response'.hospitals[k].status = "failed"
                        \/ ReportsCreated(response'.hospitals[k], ParseFile(file)[idx],
                                          b, hospitals')
      ]_vars

\* The number of rows the background task of batch b has attempted: the
\* rows before task[b].idx, and row idx itself once its insert was tried.
RowsAttempted(b) ==
    IF task[b].pc \in {"sleep", "aborted"} /\ task[b].idx <= Len(task[b].hospitals_data)
    THEN task[b].idx
    ELSE task[b].idx - 1

\* C26: every non-skipped row the background task has attempted is counted
\* once, either as processed or as failed: the two counters of the task add
\* up to the number of non-skipped rows attempted, so a row whose record was
\* stored is not counted as failed as well, also when the progress write
\* after its insert raises.
C26_EachRowCountedOnce ==
    \A b \in Batches :
        task[b].pc # "none" =>
            task[b].success_count + task[b].failed_count
                = Len(NonSkippedIndices(SubSeq(task[b].hospitals_data, 1, RowsAttempted(b))))

\* The row numbers of a list of error entries increase strictly.
RowsIncrease(errors) ==
    \A i, j \in 1..Len(errors) : i < j => errors[i].row < errors[j].row

NoToken(value) == value = None \/ Lower(value) \notin NullTokens

\* C28: a stored record carries the normalized fields of its row: name and
\* address are present, and the phone of a row whose phone cell is empty or
\* one of the tokens nan / none is stored as absent, never as the token.
C28_PhoneTokenStoredAbsent ==
    \A h \in hospitals :
        /\ h.name # None /\ NoToken(h.name)
        /\ h.address # None /\ NoToken(h.address)
        /\ NoToken(h.phone)

\* C29: a step of the ingestion, pause, resume, activation or deletion of
\* batch a leaves the BulkOperation and every record of each other batch
\* unchanged, however the steps of the two batches interleave.
C29_OtherBatchUntouched ==
    [][\A a \in BatchPair :
        StepOn(a) =>
            \A b \in BatchPair \ {a} :
                /\ bulk_operations'[b] = bulk_operations[b]
                /\ HospitalsOf(b)' = HospitalsOf(b)
      ]_vars

C29_Witness ==
    /\ response.req = "delete" /\ response.batch_id = "b1" /\ response.code = 200
    /\ Exists("b2") /\ HospitalsOf("b2") # {}
    /\ task["b2"].pc = "sleep"

\* The records other than the one with key hospital_id.
OtherRecords(hs, hospital_id) == { h \in hs : h.id # hospital_id }

\* C30: the update or the deletion of the one record with a given key leaves
\* every BulkOperation unchanged and changes, adds and removes no other
\* record.
C30_SingleRecordRequestIsLocal ==
    [][\A hospital_id \in HospitalIds :
        \/ \E update_data \in UpdateBodies : update_hospital(hospital_id, update_data)
        \/ delete_hospital(hospital_id)
        => /\ bulk_operations' = bulk_operations
           /\ OtherRecords(hospitals', hospital_id) = OtherRecords(hospitals, hospital_id)
      ]_vars

C30_Witness ==
    /\ response.req \in {"update", "delete_hospital"} /\ response.code = 200
    /\ Exists("b1") /\ bulk_operations["b1"].processed_rows > 0
    /\ \E h \in hospitals : h.id # response.hospital_id /\ h.creation_batch_id = "b1"

\* C31: in an upload without a header line, a line with fewer than two
\* cells does not abort the upload and is not dropped: the upload is
\* accepted, the background upload keeps a row for every line, and the
\* result of a synchronous upload counts every such line as failed.
C31_ShortLineIsRowRejection ==
    [][\A b \in Batches, file \in HeaderlessFiles :
        ShortLines(file.content) # {} =>
            /\ bulk_create_hospitals_realtime(b, file) =>
                  /\ response'.code = 200
                  /\ Len(task'[b].hospitals_data) = Len(file.content)
            /\ bulk_create_hospitals_optimized(b, file) \/ bulk_create_hospitals(b, file) =>
                  /\ response'.code = 200
                  /\ response'.failed_hospitals >= Cardinality(ShortLines(file.content))
      ]_vars

\* The fields of a progress snapshot.
SnapshotFields ==
    {"status", "total_rows", "current_row", "processed_rows", "failed_rows",
     "progress_percentage"}

\* Message m is the progress snapshot of the stored row op.
IsSnapshotOf(m, op) ==
    /\ SnapshotFields \subseteq DOMAIN m
    /\ m.status = op.status
    /\ m.total_rows = op.total_rows
    /\ m.current_row = op.current_row
    /\ m.processed_rows = op.processed_rows
    /\ m.failed_rows = op.failed_rows
    /\ m.progress_percentage = Percentage(op.current_row, op.total_rows)
    /\ m.progress_percentage <= 10000

\* C32: what the status query answers for an existing batch, and what the
\* live channel delivers to a subscriber of an existing batch, is the
\* snapshot of the stored row: its status, total_rows, current_row,
\* processed_rows and failed_rows, and the percentage of current_row in
\* total_rows (0 when total_rows is 0, at most 100).
C32_SnapshotsCarryStoredProgress ==
    [][/\ \A b \in Batches :
            get_bulk_operation_progress(b) /\ Exists(b) =>
                IsSnapshotOf(response', bulk_operations[b])
       /\ \A w \in Sockets :
            /\ Len(sockets'[w].received) > Len(sockets[w].received)
            /\ sockets[w].batch_id \in Batches
            /\ Exists(sockets[w].batch_id)
            => IsSnapshotOf(sockets'[w].received[Len(sockets'[w].received)],
                            bulk_operations[sockets[w].batch_id])
      ]_vars

\* C37: every call of ConnectionManager.disconnect, by websocket_endpoint
\* and by broadcast_to_batch alike, returns without raising, and the
\* registry holds no empty list of subscribers afterwards; this includes the
\* disconnect by websocket_endpoint of a connection that broadcast_to_batch
\* has removed already while other subscribers of the batch remain.
C37_DisconnectAlwaysSucceeds ==
    [][/\ \A w \in Sockets :
            /\ websocket_endpoint_disconnect(w) => sockets'[w].pc = "closed"
            /\ progress_monitor(w) => sockets'[w].monitor # "crashed"
       /\ \A b \in DOMAIN active_connections' : active_connections'[b] # <<>>
      ]_vars

\* The batch has reached a terminal status.
Terminal(b) == Exists(b) /\ bulk_operations[b].status \in {"completed", "failed"}

\* Status and counters of the stored row.
Progress(b) ==
    <<bulk_operations[b].status, bulk_operations[b].total_rows,
      bulk_operations[b].current_row, bulk_operations[b].processed_rows,
      bulk_operations[b].failed_rows>>

\* C33: without pause, resume and delete requests and without store
\* errors, every batch the background upload started eventually reaches
\* completed or failed, and from then on neither its status nor its
\* counters change.
C33_StartedBatchTerminates ==
    /\ \A b \in Batches : Exists(b) /\ task[b].pc = "queued" ~> Terminal(b)
    /\ [][\A b \in Batches :
            Terminal(b) => Terminal(b)' /\ Progress(b)' = Progress(b)]_vars

\* A batch of two lines was ingested to its end.
C33_Witness ==
    /\ Terminal("b1")
    /\ task["b1"].pc = "done"
    /\ bulk_operations["b1"].total_rows = 2
    /\ HospitalsOf("b1") # {}

ResumeRejected(b) ==
    /\ response'.req = "resume"
    /\ response'.code = 400
    /\ bulk_operations[b].status \in {"failed", "paused"} => response'.detail = "no_content"
    /\ UNCHANGED <<bulk_operations, rs>>

\* C35: no operation stores upload text in a BulkOperation: every row the
\* background upload creates has no file_content, every resume request for
\* such a batch is rejected (for the missing content, when the status
\* admits a resume), and no step takes a batch from paused or failed to
\* in_progress.
C35_NoContentNoResume ==
    [][\A b \in Batches :
          /\ Exists(b)' => bulk_operations'[b].file_content = <<>>
          /\ \A from_row \in FromRows :
                resume_bulk_operation_start(b, from_row) /\ Exists(b) => ResumeRejected(b)
          /\ Exists(b) /\ Exists(b)' /\ bulk_operations[b].status \in {"failed", "paused"}
                => bulk_operations'[b].status # "in_progress"
      ]_vars

\* A resume of a paused or failed batch was rejected for its missing content.
C35_Witness ==
    /\ response.req = "resume"
    /\ response.code = 400
    /\ response.detail = "no_content"
    /\ Exists("b1")
    /\ bulk_operations["b1"].status \in {"failed", "paused"}

\* The active records of batch b.
ActiveRecords(b) == { h \in HospitalsOf(b) : h.active }

\* The running resume carries a row failure in its count.
ResumeWithFailure == rs.pc = "loop" /\ rs.failed_count > 0

\* C36: a resume of a batch whose failed_rows is above 0 carries that
\* count to its end: whatever its own rows do, it ends with status failed
\* and activates no record; and no step takes a batch with a recorded row
\* failure to completed.
C36_ResumeAfterFailureEndsFailed ==
    [][/\ \A b \in Batches, from_row \in FromRows :
            /\ resume_bulk_operation_start(b, from_row)
            /\ Exists(b)
            /\ bulk_operations[b].failed_rows > 0
            /\ rs'.pc = "loop"
            => rs'.failed_count > 0
       /\ ResumeWithFailure /\ rs'.pc = "loop" => rs'.failed_count > 0
       /\ \A b \in Batches :
            /\ ResumeWithFailure
            /\ rs.batch_id = b
            /\ resume_bulk_operation_final
            /\ Exists(b)
            => /\ response'.code = 200
               /\ response'.status = "failed"
               /\ bulk_operations'[b].status = "failed"
               /\ ActiveRecords(b)' = ActiveRecords(b)
       /\ \A b \in Batches :
            /\ Exists(b)
            /\ bulk_operations[b].failed_rows > 0
            /\ bulk_operations[b].status # "completed"
            /\ Exists(b)'
            => bulk_operations'[b].status # "completed"
      ]_vars

\* A resume has ended failed although each of the rows it processed was
\* accepted: the one row failure of the batch is older than the resume.
C36_Witness ==
    /\ response.req = "resume"
    /\ response.code = 200
    /\ response.status = "failed"
    /\ Exists("b1")
    /\ bulk_operations["b1"].failed_rows = 1
    /\ \A k \in 1..Len(bulk_operations["b1"].error_details) :
          bulk_operations["b1"].error_details[k].row < response.resumed_from_row
    /\ HospitalsOf("b1") # {}
    /\ ActiveRecords("b1") = {}

\* C38: a record whose active flag is true keeps it true as long as the
\* record exists: no step (single-record update, ingestion, resume, pause,
\* batch activation) sets the flag of an existing record back to false.
C38_ActiveStaysTrue ==
    [][\A h \in hospitals :
          h.active => \A g \in hospitals' : g.id = h.id => g.active
      ]_vars

\* An active record has been updated.
C38_Witness ==
    /\ response.req = "update"
    /\ response.code = 200
    /\ \E h \in hospitals : h.id = response.hospital_id /\ h.active /\ h.name = "Z"

====
